---- MODULE Spec2Model ----
(***************************************************************************)
(* Operator type checking of librustc_typeck/check/op.rs: check_binop,     *)
(* check_binop_assign, check_overloaded_binop, lookup_op_method and the    *)
(* builtin rules (is_builtin_binop, enforce_builtin_binop_types).          *)
(*                                                                         *)
(* A type is a record [refs, base]: refs is the sequence of reference      *)
(* layers, outermost first ("not" = `&`, "mut" = `&mut`), base the kind    *)
(* of the innermost type.                                                  *)
(***************************************************************************)
EXTENDS Naturals, Sequences, FiniteSets

VARIABLES
    pc,           \* position of the checker inside the current call
    fn,           \* entry point running: check_binop / check_binop_assign
    op,           \* hir::BinOpKind of the expression
    is_assign,    \* IsAssign of the run ("No" / "Yes")
    lhs_ty,       \* local lhs_ty of check_overloaded_binop
    rhs_ty_var,   \* local rhs_ty_var
    rhs_ty,       \* local rhs_ty
    result,       \* local result: Result<MethodCallee, ()>
    return_ty,    \* local return_ty
    ret,          \* value returned by the entry point
    diverges,     \* FnCtxt::diverges
    lhs_diverges, \* local lhs_diverges of check_binop
    div_after_lhs,\* FnCtxt::diverges as left by the check of the left operand
    diags,        \* diagnostics emitted by this call, in order
    trace,        \* collaborator calls made by this call, in order
    demands,      \* demand_suptype calls made by this call, in order
    adjustments,  \* auto-ref adjustments recorded by this call
    method_calls, \* write_method_call records made by this call
    builtin_evals,\* arguments is_builtin_binop was evaluated on by this call
    is_builtin    \* whether the operands were found to be a builtin operation

vars == <<pc, fn, op, is_assign, lhs_ty, rhs_ty_var, rhs_ty, result, return_ty,
          ret, diverges, lhs_diverges, div_after_lhs, diags, trace, demands,
          adjustments, method_calls, builtin_evals, is_builtin>>

----------------------------------------------------------------------------
(* Types *)

\* deepest reference nesting of the operand types of the builtin-rule runs
MaxRefDepth == 2

Mutabilities == {"not", "mut"}

Ty(refs, base) == [refs |-> refs, base |-> base]

Prim(base) == Ty(<<>>, base)

\* tcx.mk_ref: one more reference layer around t
mk_ref(m, t) == [t EXCEPT !.refs = <<m>> \o t.refs]

NoTy == Prim("none")
bool_ty == Prim("bool")
unit_ty == Prim("unit")
err_ty == Prim("err")

\* general type variables: one that the operand expressions may mention and
\* the placeholders next_ty_var creates for the two operands
TyVarBases == {"?0", "?lhs", "?rhs"}

IntegralBases == {"i32", "u8", "intvar"}

FloatBases == {"f32"}

ScalarBases == IntegralBases \cup FloatBases \cup {"bool", "char"}

\* TyS::is_ty_var: Infer(TyVar(_))
is_ty_var(t) == t.refs = <<>> /\ t.base \in TyVarBases

\* TyS::is_integral: Int, Uint or Infer(IntVar(_))
is_integral(t) == t.refs = <<>> /\ t.base \in IntegralBases

is_floating_point(t) == t.refs = <<>> /\ t.base \in FloatBases

is_bool(t) == t.refs = <<>> /\ t.base = "bool"

is_scalar(t) == t.refs = <<>> /\ t.base \in ScalarBases

\* TypeFoldable::references_error: the error type occurs anywhere inside
references_error(t) == t.base = "err"

is_ref(t) == Len(t.refs) > 0

----------------------------------------------------------------------------
(* Operators and categories *)

ShortcircuitOps == {"And", "Or"}
ShiftOps == {"Shl", "Shr"}
MathOps == {"Add", "Sub", "Mul", "Div", "Rem"}
BitwiseOps == {"BitXor", "BitAnd", "BitOr"}
ComparisonOps == {"Eq", "Ne", "Lt", "Le", "Ge", "Gt"}

BinOpKinds == ShortcircuitOps \cup ShiftOps \cup MathOps \cup BitwiseOps \cup ComparisonOps

\* the operators that have a compound-assignment form (hir::ExprKind::AssignOp)
AssignOpKinds == ShiftOps \cup MathOps \cup BitwiseOps

BinOpCategory_from(o) ==
    CASE o \in ShiftOps -> "Shift"
      [] o \in MathOps -> "Math"
      [] o \in BitwiseOps -> "Bitwise"
      [] o \in ComparisonOps -> "Comparison"
      [] o \in ShortcircuitOps -> "Shortcircuit"

deref_ty_if_possible_AnyMutability(t) ==
    IF is_ref(t) THEN [t EXCEPT !.refs = Tail(t.refs)] ELSE t

deref_ty_if_possible(t) ==
    IF is_ref(t) /\ Head(t.refs) = "not" THEN [t EXCEPT !.refs = Tail(t.refs)] ELSE t

is_builtin_binop_MathFloatOnly(l, r, o) ==
    LET lhs == deref_ty_if_possible(l)
        rhs == deref_ty_if_possible(r)
        cat == BinOpCategory_from(o)
    IN  CASE cat = "Shortcircuit" -> TRUE
          [] cat = "Shift" ->
                \/ references_error(lhs)
                \/ references_error(rhs)
                \/ is_integral(lhs) /\ is_integral(rhs)
          [] cat = "Math" ->
                \/ references_error(lhs)
                \/ references_error(rhs)
                \/ is_floating_point(lhs) /\ is_floating_point(rhs)
          [] cat = "Bitwise" ->
                \/ references_error(lhs)
                \/ references_error(rhs)
                \/ is_integral(lhs) /\ is_integral(rhs)
                \/ is_floating_point(lhs) /\ is_floating_point(rhs)
                \/ is_bool(lhs) /\ is_bool(rhs)
          [] cat = "Comparison" ->
                \/ references_error(lhs)
                \/ references_error(rhs)
                \/ is_scalar(lhs) /\ is_scalar(rhs)

is_builtin_binop_BitwiseAsMath(l, r, o) ==
    LET lhs == deref_ty_if_possible(l)
        rhs == deref_ty_if_possible(r)
        cat == BinOpCategory_from(o)
    IN  CASE cat = "Shortcircuit" -> TRUE
          [] cat = "Shift" ->
                \/ references_error(lhs)
                \/ references_error(rhs)
                \/ is_integral(lhs) /\ is_integral(rhs)
          [] cat = "Math" ->
                \/ references_error(lhs)
                \/ references_error(rhs)
                \/ is_integral(lhs) /\ is_integral(rhs)
                \/ is_floating_point(lhs) /\ is_floating_point(rhs)
          [] cat = "Bitwise" ->
                \/ references_error(lhs)
                \/ references_error(rhs)
                \/ is_integral(lhs) /\ is_integral(rhs)
                \/ is_floating_point(lhs) /\ is_floating_point(rhs)
          [] cat = "Comparison" ->
                \/ references_error(lhs)
                \/ references_error(rhs)
                \/ is_scalar(lhs) /\ is_scalar(rhs)

is_builtin_binop_ComparisonEitherScalar(l, r, o) ==
    LET lhs == deref_ty_if_possible(l)
        rhs == deref_ty_if_possible(r)
        cat == BinOpCategory_from(o)
    IN  CASE cat = "Shortcircuit" -> TRUE
          [] cat = "Shift" ->
                \/ references_error(lhs)
                \/ references_error(rhs)
                \/ is_integral(lhs) /\ is_integral(rhs)
          [] cat = "Math" ->
                \/ references_error(lhs)
                \/ references_error(rhs)
                \/ is_integral(lhs) /\ is_integral(rhs)
                \/ is_floating_point(lhs) /\ is_floating_point(rhs)
          [] cat = "Bitwise" ->
                \/ references_error(lhs)
                \/ references_error(rhs)
                \/ is_integral(lhs) /\ is_integral(rhs)
                \/ is_floating_point(lhs) /\ is_floating_point(rhs)
                \/ is_bool(lhs) /\ is_bool(rhs)
          [] cat = "Comparison" ->
                \/ references_error(lhs)
                \/ references_error(rhs)
                \/ is_scalar(lhs) \/ is_scalar(rhs)

is_builtin_binop_ErrorLhsOnly(l, r, o) ==
    LET lhs == deref_ty_if_possible(l)
        rhs == deref_ty_if_possible(r)
        cat == BinOpCategory_from(o)
    IN  CASE cat = "Shortcircuit" -> TRUE
          [] cat = "Shift" ->
                \/ references_error(lhs)
                \/ is_integral(lhs) /\ is_integral(rhs)
          [] cat = "Math" ->
                \/ references_error(lhs)
                \/ is_integral(lhs) /\ is_integral(rhs)
                \/ is_floating_point(lhs) /\ is_floating_point(rhs)
          [] cat = "Bitwise" ->
                \/ references_error(lhs)
                \/ is_integral(lhs) /\ is_integral(rhs)
                \/ is_floating_point(lhs) /\ is_floating_point(rhs)
                \/ is_bool(lhs) /\ is_bool(rhs)
          [] cat = "Comparison" ->
                \/ references_error(lhs)
                \/ is_scalar(lhs) /\ is_scalar(rhs)

is_builtin_binop(l, r, o) ==
    LET lhs == deref_ty_if_possible(l)
        rhs == deref_ty_if_possible(r)
        cat == BinOpCategory_from(o)
    IN  CASE cat = "Shortcircuit" -> TRUE
          [] cat = "Shift" ->
                \/ references_error(lhs)
                \/ references_error(rhs)
                \/ is_integral(lhs) /\ is_integral(rhs)
          [] cat = "Math" ->
                \/ references_error(lhs)
                \/ references_error(rhs)
                \/ is_integral(lhs) /\ is_integral(rhs)
                \/ is_floating_point(lhs) /\ is_floating_point(rhs)
          [] cat = "Bitwise" ->
                \/ references_error(lhs)
                \/ references_error(rhs)
                \/ is_integral(lhs) /\ is_integral(rhs)
                \/ is_floating_point(lhs) /\ is_floating_point(rhs)
                \/ is_bool(lhs) /\ is_bool(rhs)
          [] cat = "Comparison" ->
                \/ references_error(lhs)
                \/ references_error(rhs)
                \/ is_scalar(lhs) /\ is_scalar(rhs)

\* one demand_suptype(span, expected, actual) call
Demand(span, expected, actual) == [span |-> span, expected |-> expected, actual |-> actual]

enforce_builtin_binop_types_ShiftDemands(l, r, o) ==
    LET lhs == deref_ty_if_possible(l)
        rhs == deref_ty_if_possible(r)
        cat == BinOpCategory_from(o)
    IN  CASE cat = "Shortcircuit" ->
                [ty |-> bool_ty,
                 demands |-> <<Demand("lhs", bool_ty, lhs), Demand("rhs", bool_ty, rhs)>>]
          [] cat \in {"Shift", "Math", "Bitwise"} ->
                [ty |-> lhs, demands |-> <<Demand("rhs", lhs, rhs)>>]
          [] cat = "Comparison" ->
                [ty |-> bool_ty, demands |-> <<Demand("rhs", lhs, rhs)>>]

enforce_builtin_binop_types_NoDeref(l, r, o) ==
    LET cat == BinOpCategory_from(o)
    IN  CASE cat = "Shortcircuit" ->
                [ty |-> bool_ty,
                 demands |-> <<Demand("lhs", bool_ty, l), Demand("rhs", bool_ty, r)>>]
          [] cat = "Shift" ->
                [ty |-> l, demands |-> <<>>]
          [] cat \in {"Math", "Bitwise"} ->
                [ty |-> l, demands |-> <<Demand("rhs", l, r)>>]
          [] cat = "Comparison" ->
                [ty |-> bool_ty, demands |-> <<Demand("rhs", l, r)>>]

enforce_builtin_binop_types_ComparisonReturnsLhs(l, r, o) ==
    LET lhs == deref_ty_if_possible(l)
        rhs == deref_ty_if_possible(r)
        cat == BinOpCategory_from(o)
    IN  CASE cat = "Shortcircuit" ->
                [ty |-> bool_ty,
                 demands |-> <<Demand("lhs", bool_ty, lhs), Demand("rhs", bool_ty, rhs)>>]
          [] cat = "Shift" ->
                [ty |-> lhs, demands |-> <<>>]
          [] cat \in {"Math", "Bitwise", "Comparison"} ->
                [ty |-> lhs, demands |-> <<Demand("rhs", lhs, rhs)>>]

\* enforce_builtin_binop_types: the type it returns and the demand_suptype
\* calls it makes, in order
enforce_builtin_binop_types(l, r, o) ==
    LET lhs == deref_ty_if_possible(l)
        rhs == deref_ty_if_possible(r)
        cat == BinOpCategory_from(o)
    IN  CASE cat = "Shortcircuit" ->
                [ty |-> bool_ty,
                 demands |-> <<Demand("lhs", bool_ty, lhs), Demand("rhs", bool_ty, rhs)>>]
          [] cat = "Shift" ->
                [ty |-> lhs, demands |-> <<>>]
          [] cat \in {"Math", "Bitwise"} ->
                [ty |-> lhs, demands |-> <<Demand("rhs", lhs, rhs)>>]
          [] cat = "Comparison" ->
                [ty |-> bool_ty, demands |-> <<Demand("rhs", lhs, rhs)>>]

----------------------------------------------------------------------------
(* Collaborators outside op.rs *)

IsPrefix(s, t) == Len(s) <= Len(t) /\ SubSeq(t, 1, Len(s)) = s

BaseCompatible(a, b) ==
    \/ a = b
    \/ a = "intvar" /\ b \in IntegralBases
    \/ b = "intvar" /\ a \in IntegralBases

\* whether the inference engine can relate the two types: error types relate
\* to everything, a type variable to any type with its reference layers, an
\* integer variable to any integral type
Unifiable(a, b) ==
    \/ references_error(a)
    \/ references_error(b)
    \/ a.base \in TyVarBases /\ IsPrefix(a.refs, b.refs)
    \/ b.base \in TyVarBases /\ IsPrefix(b.refs, a.refs)
    \/ a.refs = b.refs /\ BaseCompatible(a.base, b.base)

E0308 == [code |-> "E0308", suggs |-> {}, notes |-> {}]

\* demand_suptype: the diagnostics one call emits (a mismatch, or nothing)
demand_suptype(d) == IF Unifiable(d.expected, d.actual) THEN <<>> ELSE <<E0308>>

RECURSIVE demand_all(_)
demand_all(ds) == IF ds = <<>> THEN <<>> ELSE demand_suptype(Head(ds)) \o demand_all(Tail(ds))

\* BinOpKind::is_by_value: every operator but the comparisons
is_by_value(o) == o \notin ComparisonOps

\* what checking a sub-expression can do to FnCtxt::diverges: it never lowers it
CheckExprDiverges(d) == IF d = "Always" THEN {"Always"} ELSE {"Maybe", "Always"}

\* the types the operand expressions of a checked expression may have
ExprTys ==
    {Prim("i32"), Prim("u8"), Prim("f32"), Prim("bool"), Prim("S"), Prim("err"),
     Prim("?0"), Prim("intvar"),
     Ty(<<"not">>, "i32"), Ty(<<"mut">>, "i32"), Ty(<<"not">>, "?0"), Ty(<<"not">>, "S"),
     Prim("fndef"), Ty(<<"not">>, "str"), Prim("String")}

\* output types a resolved callee may declare
OutTys == {Prim("i32"), bool_ty, unit_ty}

NoSig == [in0 |-> NoTy, in1 |-> NoTy, out |-> NoTy]

\* the callees lookup_method_in_trait may answer with for receiver l and argument r
MethodSigs(l, r) ==
    {[in0 |-> a, in1 |-> b, out |-> c] :
        a \in {l, mk_ref("not", l), mk_ref("mut", l)},
        b \in {r, mk_ref("not", r), mk_ref("mut", r)},
        c \in OutTys}

NoResult == [kind |-> "none", sig |-> NoSig]
Err == [kind |-> "Err", sig |-> NoSig]
Ok(m) == [kind |-> "Ok", sig |-> m]
Bug == [kind |-> "Bug", sig |-> NoSig]

Ev(name, a, b) == [ev |-> name, a |-> a, b |-> b]

----------------------------------------------------------------------------
(* lookup_op_method *)

lookup_op_method_ComparisonAssignFails(o, assign, has_trait, answer) ==
    IF assign = "Yes" /\ o \in ShortcircuitOps THEN Bug
    ELSE IF assign = "No" /\ o \in ShortcircuitOps THEN Bug
    ELSE IF has_trait /\ answer.some /\ ~(assign = "Yes" /\ o \in ComparisonOps)
    THEN Ok(answer.sig)
    ELSE Err

\* has_trait: the lang-item table has the operator's trait; answer: what
\* lookup_method_in_trait returns when asked ([some |-> FALSE] for None)
\* assign is "Unary" for Op::Unary, whose table knows `!` and `-` only
lookup_op_method(o, assign, has_trait, answer) ==
    IF assign = "Yes" /\ o \in ComparisonOps \cup ShortcircuitOps THEN Bug
    ELSE IF assign = "No" /\ o \in ShortcircuitOps THEN Bug
    ELSE IF assign = "Unary" /\ o \notin {"UnNot", "UnNeg"} THEN Bug
    ELSE IF has_trait /\ answer.some THEN Ok(answer.sig)
    ELSE Err

\* lines 787-790, trait_did.and_then(..): lookup_method_in_trait is called
\* when the operator has passed the table and its trait is a lang item,
\* which is when an answer of Some would make the lookup succeed
MethodLookupCalls(o, assign, has_trait, l, r) ==
    IF lookup_op_method(o, assign, has_trait,
                        [has_trait |-> has_trait, some |-> TRUE, sig |-> NoSig]).kind = "Ok"
    THEN <<Ev("lookup_method_in_trait", l, r)>>
    ELSE <<>>

\* the answers of the table and of lookup_method_in_trait for (l, r)
LookupAnswers(l, r) ==
    {[has_trait |-> TRUE, some |-> TRUE, sig |-> m] : m \in MethodSigs(l, r)}
    \cup {[has_trait |-> h, some |-> FALSE, sig |-> NoSig] : h \in BOOLEAN}

----------------------------------------------------------------------------
(* Initial state and entry points *)

Cleared ==
    /\ fn' = "none"
    /\ op' = "none"
    /\ is_assign' = "none"
    /\ lhs_ty' = NoTy
    /\ rhs_ty_var' = NoTy
    /\ rhs_ty' = NoTy
    /\ result' = NoResult
    /\ return_ty' = NoTy
    /\ ret' = NoTy
    /\ lhs_diverges' = "none"
    /\ div_after_lhs' = "none"
    /\ diags' = <<>>
    /\ trace' = <<>>
    /\ demands' = <<>>
    /\ adjustments' = <<>>
    /\ method_calls' = <<>>
    /\ builtin_evals' = <<>>
    /\ is_builtin' = FALSE

Init ==
    /\ pc = "idle"
    /\ fn = "none"
    /\ op = "none"
    /\ is_assign = "none"
    /\ lhs_ty = NoTy
    /\ rhs_ty_var = NoTy
    /\ rhs_ty = NoTy
    /\ result = NoResult
    /\ return_ty = NoTy
    /\ ret = NoTy
    /\ diverges = "Maybe"
    /\ lhs_diverges = "none"
    /\ div_after_lhs = "none"
    /\ diags = <<>>
    /\ trace = <<>>
    /\ demands = <<>>
    /\ adjustments = <<>>
    /\ method_calls = <<>>
    /\ builtin_evals = <<>>
    /\ is_builtin = FALSE

Call_check_binop_AlwaysOverloaded ==
    /\ pc = "idle"
    /\ \E o \in BinOpKinds : op' = o
    /\ pc' = "ob_lhs"
    /\ is_assign' = "No"
    /\ fn' = "check_binop"
    /\ UNCHANGED <<lhs_ty, rhs_ty_var, rhs_ty, result, return_ty, ret, diverges,
                   lhs_diverges, div_after_lhs, diags, trace, demands, adjustments,
                   method_calls, builtin_evals, is_builtin>>

\* check_binop is entered; the match on the category picks the arm
Call_check_binop ==
    /\ pc = "idle"
    /\ \E o \in BinOpKinds :
        /\ op' = o
        /\ IF BinOpCategory_from(o) = "Shortcircuit"
           THEN pc' = "sc_lhs" /\ is_assign' = "none"
           ELSE pc' = "ob_lhs" /\ is_assign' = "No"
    /\ fn' = "check_binop"
    /\ UNCHANGED <<lhs_ty, rhs_ty_var, rhs_ty, result, return_ty, ret, diverges,
                   lhs_diverges, div_after_lhs, diags, trace, demands, adjustments,
                   method_calls, builtin_evals,
                   is_builtin>>

\* check_binop_assign is entered and calls check_overloaded_binop(.., IsAssign::Yes)
Call_check_binop_assign ==
    /\ pc = "idle"
    /\ \E o \in AssignOpKinds : op' = o
    /\ fn' = "check_binop_assign"
    /\ is_assign' = "Yes"
    /\ pc' = "ob_lhs"
    /\ UNCHANGED <<lhs_ty, rhs_ty_var, rhs_ty, result, return_ty, ret, diverges,
                   lhs_diverges, div_after_lhs, diags, trace, demands, adjustments,
                   method_calls, builtin_evals,
                   is_builtin>>

----------------------------------------------------------------------------
(* check_binop, the Shortcircuit arm *)

\* self.check_expr_coercable_to_type(lhs_expr, tcx.types.bool)
SC_CheckLhs ==
    /\ pc = "sc_lhs"
    /\ \E d \in CheckExprDiverges(diverges) :
        /\ diverges' = d
        /\ div_after_lhs' = d
        /\ trace' = Append(trace, Ev("check_lhs", bool_ty, Prim(d)))
    /\ pc' = "sc_save"
    /\ UNCHANGED <<fn, op, is_assign, lhs_ty, rhs_ty_var, rhs_ty, result, return_ty,
                   ret, lhs_diverges, diags, demands, adjustments, method_calls,
                   builtin_evals,
                   is_builtin>>

\* let lhs_diverges = self.diverges.get()
SC_SaveDiverges ==
    /\ pc = "sc_save"
    /\ lhs_diverges' = diverges
    /\ pc' = "sc_rhs"
    /\ UNCHANGED <<fn, op, is_assign, lhs_ty, rhs_ty_var, rhs_ty, result, return_ty,
                   ret, diverges, div_after_lhs, diags, trace, demands, adjustments,
                   method_calls, builtin_evals,
                   is_builtin>>

\* self.check_expr_coercable_to_type(rhs_expr, tcx.types.bool)
SC_CheckRhs ==
    /\ pc = "sc_rhs"
    /\ \E d \in CheckExprDiverges(diverges) :
        /\ diverges' = d
        /\ trace' = Append(trace, Ev("check_rhs", bool_ty, Prim(d)))
    /\ pc' = "sc_restore"
    /\ UNCHANGED <<fn, op, is_assign, lhs_ty, rhs_ty_var, rhs_ty, result, return_ty,
                   ret, lhs_diverges, div_after_lhs, diags, demands, adjustments,
                   method_calls, builtin_evals,
                   is_builtin>>

SC_Restore_Leak ==
    /\ pc = "sc_restore"
    /\ ret' = bool_ty
    /\ pc' = "done"
    /\ UNCHANGED <<fn, op, is_assign, lhs_ty, rhs_ty_var, rhs_ty, result, return_ty,
                   diverges, lhs_diverges, div_after_lhs, diags, trace, demands,
                   adjustments, method_calls, builtin_evals, is_builtin>>

\* self.diverges.set(lhs_diverges); tcx.types.bool
SC_Restore ==
    /\ pc = "sc_restore"
    /\ diverges' = lhs_diverges
    /\ ret' = bool_ty
    /\ pc' = "done"
    /\ UNCHANGED <<fn, op, is_assign, lhs_ty, rhs_ty_var, rhs_ty, result, return_ty,
                   lhs_diverges, div_after_lhs, diags, trace, demands, adjustments,
                   method_calls, builtin_evals,
                   is_builtin>>

----------------------------------------------------------------------------
(* check_overloaded_binop *)

LhsEvents_AlwaysCoerced(assign) ==
    <<Ev("check_lhs", Prim("Needs::None"), NoTy),
      Ev("next_ty_var", Prim("?lhs"), NoTy),
      Ev("demand_coerce_lhs", Prim("?lhs"), NoTy)>>

\* lines 161-183: the left operand is checked (and, for a plain operator,
\* coerced to a fresh variable), then resolved
LhsEvents(assign) ==
    IF assign = "No"
    THEN <<Ev("check_lhs", Prim("Needs::None"), NoTy),
           Ev("next_ty_var", Prim("?lhs"), NoTy),
           Ev("demand_coerce_lhs", Prim("?lhs"), NoTy)>>
    ELSE <<Ev("check_lhs", Prim("Needs::MutPlace"), NoTy)>>

\* line 184, resolve_vars_with_obligations(lhs_ty): what is resolved is the
\* fresh variable for a plain operator and the checked type otherwise
ResolveLhs(assign, t) ==
    <<Ev("resolve_vars_with_obligations", IF assign = "No" THEN Prim("?lhs") ELSE t, t)>>

OB_CheckLhs ==
    /\ pc = "ob_lhs"
    /\ \E t \in ExprTys :
          /\ lhs_ty' = t
          /\ trace' = trace \o LhsEvents(is_assign) \o ResolveLhs(is_assign, t)
    /\ \E d \in CheckExprDiverges(diverges) : diverges' = d
    /\ pc' = "ob_lookup"
    /\ UNCHANGED <<fn, op, is_assign, rhs_ty_var, rhs_ty, result, return_ty, ret,
                   lhs_diverges, div_after_lhs, diags, demands, adjustments,
                   method_calls, builtin_evals,
                   is_builtin>>

OB_Lookup_AfterRhs ==
    /\ pc = "ob_lookup"
    /\ rhs_ty_var' = Prim("?rhs")
    /\ \E t \in ExprTys \cup {Prim("?rhs")} : rhs_ty' = t
    /\ \E a \in LookupAnswers(lhs_ty, Prim("?rhs")) :
        /\ result' = lookup_op_method(op, is_assign, a.has_trait, a)
        /\ trace' = trace \o <<Ev("next_ty_var", Prim("?rhs"), NoTy),
                               Ev("check_rhs", Prim("?rhs"), NoTy),
                               Ev("lookup_op_method", lhs_ty, Prim("?rhs"))>>
                          \o MethodLookupCalls(op, is_assign, a.has_trait, lhs_ty, Prim("?rhs"))
    /\ pc' = IF result'.kind = "Bug" THEN "ice" ELSE "ob_result"
    /\ UNCHANGED <<fn, op, is_assign, lhs_ty, return_ty, ret, diverges,
                   lhs_diverges, div_after_lhs, diags, demands, adjustments,
                   method_calls, builtin_evals, is_builtin>>

\* lines 191-196: the placeholder for the right operand, then the lookup
OB_Lookup ==
    /\ pc = "ob_lookup"
    /\ rhs_ty_var' = Prim("?rhs")
    /\ \E a \in LookupAnswers(lhs_ty, Prim("?rhs")) :
        /\ result' = lookup_op_method(op, is_assign, a.has_trait, a)
        /\ trace' = trace \o <<Ev("next_ty_var", Prim("?rhs"), NoTy),
                               Ev("lookup_op_method", lhs_ty, Prim("?rhs"))>>
                          \o MethodLookupCalls(op, is_assign, a.has_trait, lhs_ty, Prim("?rhs"))
    /\ pc' = IF result'.kind = "Bug" THEN "ice" ELSE "ob_rhs"
    /\ UNCHANGED <<fn, op, is_assign, lhs_ty, rhs_ty, return_ty, ret, diverges,
                   lhs_diverges, div_after_lhs, diags, demands, adjustments,
                   method_calls, builtin_evals,
                   is_builtin>>

\* lines 199-200: the right operand is checked against the placeholder and
\* resolved; it may stay the unresolved placeholder
OB_CheckRhs ==
    /\ pc = "ob_rhs"
    /\ \E t \in ExprTys \cup {rhs_ty_var} : rhs_ty' = t
    /\ \E d \in CheckExprDiverges(diverges) : diverges' = d
    /\ trace' = Append(trace, Ev("check_rhs", rhs_ty_var, NoTy))
    /\ pc' = "ob_result"
    /\ UNCHANGED <<fn, op, is_assign, lhs_ty, rhs_ty_var, result, return_ty, ret,
                   lhs_diverges, div_after_lhs, diags, demands, adjustments,
                   method_calls, builtin_evals,
                   is_builtin>>

Adjustment(pos, target) ==
    [pos |-> pos,
     mutbl |-> Head(target.refs),
     allow_two_phase_borrow |-> Head(target.refs) = "mut",
     target |-> target]

AutorefAdjustments_AnyOperator(o, assign, sig) ==
    (IF is_ref(sig.in0) THEN <<Adjustment("lhs", sig.in0)>> ELSE <<>>)
    \o (IF ~is_by_value(o) /\ is_ref(sig.in1)
        THEN <<Adjustment("rhs", sig.in1)>> ELSE <<>>)

\* lines 204-247: the auto-ref adjustments of a resolved callee
AutorefAdjustments(o, assign, sig) ==
    LET by_ref_binop == ~is_by_value(o)
    IN  (IF (assign = "Yes" \/ by_ref_binop) /\ is_ref(sig.in0)
         THEN <<Adjustment("lhs", sig.in0)>> ELSE <<>>)
        \o (IF by_ref_binop /\ is_ref(sig.in1)
            THEN <<Adjustment("rhs", sig.in1)>> ELSE <<>>)

\* Ref(_, rty, _): the referent of a reference of either mutability
referent(t) == [t EXCEPT !.refs = Tail(t.refs)]

\* FnDef(..): the type of a function item that has not been called
IsFnDef(t) == t = Prim("fndef")

\* fn_sig(def_id).output() of the function items of the checked expressions
FnOutput == Prim("i32")

\* l_ty.kind == Str
is_str(t) == t = Prim("str")

\* the closure is_std_string of check_str_addition
is_std_string(t) == t = Prim("String")

\* what type_is_copy_modulo_regions may answer for t: shared references and
\* the primitive scalars are Copy, `&mut`, str and String are not, and a
\* user type or an unresolved type may be either
CopyAnswers(t) ==
    IF is_ref(t) THEN {Head(t.refs) = "not"}
    ELSE IF t.base \in {"i32", "u8", "f32", "bool", "char", "fndef"} THEN {TRUE}
    ELSE IF t.base \in {"str", "String"} THEN {FALSE}
    ELSE BOOLEAN

YesNo(b) == Prim(IF b THEN "yes" ELSE "no")

\* a lookup_op_method call made to probe for a suggestion, with its result;
\* found: lookup_method_in_trait answered Some
Probe(o, assign, found) ==
    lookup_op_method(o, assign, TRUE, [has_trait |-> TRUE, some |-> found, sig |-> NoSig])

ProbeEvents(site, receiver, other, probe) ==
    <<Ev("lookup_op_method", receiver, other),
      Ev("lookup_result", Prim(probe.kind), Prim(site))>>

SnippetEvent(which, ok) == Ev("span_to_snippet", Prim(which), YesNo(ok))

NoAdvice == [sugg |-> FALSE, flag |-> FALSE, events |-> <<>>]

\* lines 509-559, add_type_neq_err_label for the operand at `which`:
\* flag is the value returned, sugg says whether the call suggestion was
\* attached. tables, other_tables: has_typeck_tables of the two function
\* items; found: the answer to the probing lookup; snip: span_to_snippet
add_type_neq_err_label(which, ty, other, o, assign, tables, other_tables, found, snip) ==
    IF ~IsFnDef(ty) THEN NoAdvice
    ELSE IF ~tables THEN NoAdvice
    ELSE IF IsFnDef(other) /\ ~other_tables THEN NoAdvice
    ELSE LET other_ty == IF IsFnDef(other) THEN FnOutput ELSE other
             probe == Probe(o, assign, found)
         IN  IF probe.kind = "Ok"
             THEN [sugg |-> snip, flag |-> TRUE,
                   events |-> ProbeEvents("label_" \o which, FnOutput, other_ty, probe)
                              \o <<SnippetEvent(which, snip)>>]
             ELSE [sugg |-> FALSE, flag |-> FALSE,
                   events |-> ProbeEvents("label_" \o which, FnOutput, other_ty, probe)]

\* lines 430-447: the two labels of a plain operator's diagnostic
TypeLabels(o, assign, l, r, orc) ==
    IF assign = "No" /\ orc.spans_differ
    THEN LET a == add_type_neq_err_label("lhs", l, r, o, assign, orc.lhs_tables,
                                         orc.rhs_tables, orc.lhs_probe, orc.snip_lhs)
             b == add_type_neq_err_label("rhs", r, l, o, assign, orc.rhs_tables,
                                         orc.lhs_tables, orc.rhs_probe, orc.snip_rhs)
         IN  [sugg |-> a.sugg \/ b.sugg, flag |-> a.flag \/ b.flag,
              events |-> a.events \o b.events]
    ELSE NoAdvice

SuggestedDeref_NoSnippet(l, copy, probe, snippet) ==
    is_ref(l) /\ copy /\ probe.kind = "Ok"

\* lines 271-298 and 449-471: whether the dereference suggestion is made.
\* copy: type_is_copy_modulo_regions(rty); probe: the lookup on rty;
\* snippet: span_to_snippet gave the source text
SuggestedDeref(l, copy, probe, snippet) ==
    is_ref(l) /\ copy /\ probe.kind = "Ok" /\ snippet

\* the collaborator calls of the dereference heuristic, with their answers
DerefAdvice(o, assign, l, r, orc) ==
    IF ~is_ref(l) THEN NoAdvice
    ELSE LET probe == Probe(o, assign, orc.deref_probe)
         IN  [sugg |-> SuggestedDeref(l, orc.copy, probe, orc.snip_lhs),
              flag |-> SuggestedDeref(l, orc.copy, probe, orc.snip_lhs),
              events |->
                  <<Ev("type_is_copy", referent(l), YesNo(orc.copy))>>
                  \o (IF orc.copy
                      THEN ProbeEvents("deref", referent(l), r, probe)
                           \o (IF probe.kind = "Ok"
                               THEN <<SnippetEvent("lhs", orc.snip_lhs)>> ELSE <<>>)
                      ELSE <<>>)]

\* lines 566-662, check_str_addition: flag is the value returned, sugg says
\* whether a rewrite or its help text was attached
check_str_addition(l, r, assign, orc) ==
    IF /\ is_ref(l) /\ is_ref(r)
       /\ is_str(referent(l)) \/ is_std_string(referent(l))
       /\ \/ is_str(referent(r))
          \/ is_std_string(referent(r))
          \/ r = Ty(<<"not", "not">>, "str")
    THEN IF assign = "No"
         THEN [sugg |-> TRUE, flag |-> TRUE, events |-> <<SnippetEvent("lhs", orc.snip_lhs)>>]
         ELSE [sugg |-> FALSE, flag |-> TRUE, events |-> <<>>]
    ELSE IF /\ is_ref(l)
            /\ is_str(referent(l)) \/ is_std_string(referent(l))
            /\ is_std_string(r)
    THEN [sugg |-> TRUE, flag |-> TRUE,
          events |-> <<SnippetEvent("lhs", orc.snip_lhs), SnippetEvent("rhs", orc.snip_rhs)>>]
    ELSE NoAdvice

\* lines 312-317 and 472-477: check_str_addition is asked for `+` only
StrAdvice(o, assign, l, r, orc) ==
    IF o = "Add" THEN check_str_addition(l, r, assign, orc) ELSE NoAdvice

\* whether the failed lookup is reported at all (line 254)
Reported(l, r) == ~references_error(l) /\ ~references_error(r)

\* the suggestions attached to the diagnostic of a failed lookup
Suggestions(o, assign, l, r, orc) ==
    (IF TypeLabels(o, assign, l, r, orc).sugg THEN {"call"} ELSE {})
    \cup (IF DerefAdvice(o, assign, l, r, orc).sugg THEN {"deref"} ELSE {})
    \cup (IF StrAdvice(o, assign, l, r, orc).sugg THEN {"str"} ELSE {})

\* Adt(def, _) = ty.peel_refs().kind
peels_to_adt(t) == t.base \in {"S", "String"}

\* what def.did.is_local() may answer: String is defined in another crate
LocalAnswers(t) == IF t.base = "S" THEN BOOLEAN ELSE {FALSE}

\* lines 927-937, suggest_impl_missing: the note it adds
suggest_impl_missing(t, local) ==
    IF peels_to_adt(t) /\ local THEN {"impl_missing"} ELSE {}

\* lines 312-335 and 472-495: the note of the diagnostic of a failed lookup
Notes(o, assign, l, r, orc) ==
    IF StrAdvice(o, assign, l, r, orc).flag THEN {}
    ELSE IF DerefAdvice(o, assign, l, r, orc).flag THEN {}
    ELSE IF assign = "No" /\ TypeLabels(o, assign, l, r, orc).flag THEN {}
    ELSE suggest_impl_missing(l, orc.local)

FailureDiags_EmittedTwice(o, assign, l, r, orc) ==
    IF Reported(l, r)
    THEN LET d == [code |-> IF assign = "Yes" THEN "E0368" ELSE "E0369",
                   suggs |-> Suggestions(o, assign, l, r, orc),
        notes |-> Notes(o, assign, l, r, orc)]
         IN  <<d, d>>
    ELSE <<>>

FailureDiags_AlwaysReported(o, assign, l, r, orc) ==
    <<[code |-> IF assign = "Yes" THEN "E0368" ELSE "E0369",
       suggs |-> Suggestions(o, assign, l, r, orc),
        notes |-> Notes(o, assign, l, r, orc)]>>

\* lines 254-336 and 338-497: the diagnostic of a failed lookup
FailureDiags(o, assign, l, r, orc) ==
    IF Reported(l, r)
    THEN <<[code |-> IF assign = "Yes" THEN "E0368" ELSE "E0369",
            suggs |-> Suggestions(o, assign, l, r, orc),
        notes |-> Notes(o, assign, l, r, orc)]>>
    ELSE <<>>

\* the collaborator calls the failure path makes on the way, in order
FailureEvents(o, assign, l, r, orc) ==
    IF Reported(l, r)
    THEN TypeLabels(o, assign, l, r, orc).events
         \o DerefAdvice(o, assign, l, r, orc).events
         \o StrAdvice(o, assign, l, r, orc).events
    ELSE <<>>

AnswersIf(asked) == IF asked THEN BOOLEAN ELSE {FALSE}

\* the answers the collaborators may give on the failure path; an answer
\* that is never asked for is left FALSE
Oracles(assign, l, r) ==
    LET labels == Reported(l, r) /\ assign = "No"
        deref == Reported(l, r) /\ is_ref(l)
    IN  {[spans_differ |-> sd, lhs_tables |-> lt, rhs_tables |-> rt, lhs_probe |-> lp,
          rhs_probe |-> rp, copy |-> c, deref_probe |-> dp, snip_lhs |-> sl,
          snip_rhs |-> sr, local |-> lc] :
            sd \in AnswersIf(labels /\ (IsFnDef(l) \/ IsFnDef(r))),
            lt \in AnswersIf(labels /\ IsFnDef(l)),
            rt \in AnswersIf(labels /\ IsFnDef(r)),
            lp \in AnswersIf(labels /\ IsFnDef(l)),
            rp \in AnswersIf(labels /\ IsFnDef(r)),
            c \in IF deref THEN CopyAnswers(referent(l)) ELSE {FALSE},
            dp \in AnswersIf(deref),
            sl \in AnswersIf(Reported(l, r)),
            sr \in AnswersIf(Reported(l, r)),
            lc \in IF Reported(l, r) THEN LocalAnswers(l) ELSE {FALSE}}

OB_Result_ProbeRecorded ==
    /\ pc = "ob_result"
    /\ \/ /\ result.kind = "Ok"
          /\ adjustments' = adjustments \o AutorefAdjustments(op, is_assign, result.sig)
          /\ method_calls' = Append(method_calls, result.sig)
          /\ return_ty' = result.sig.out
          /\ UNCHANGED <<diags, trace>>
       \/ /\ result.kind = "Err"
          /\ \E orc \in Oracles(is_assign, lhs_ty, rhs_ty) :
                /\ diags' = diags \o FailureDiags(op, is_assign, lhs_ty, rhs_ty, orc)
                /\ trace' = trace \o FailureEvents(op, is_assign, lhs_ty, rhs_ty, orc)
                /\ method_calls' =
                      IF DerefAdvice(op, is_assign, lhs_ty, rhs_ty, orc).flag
                      THEN Append(method_calls, NoSig) ELSE method_calls
          /\ return_ty' = err_ty
          /\ UNCHANGED adjustments
    /\ pc' = "ob_return"
    /\ UNCHANGED <<fn, op, is_assign, lhs_ty, rhs_ty_var, rhs_ty, result, ret,
                   diverges, lhs_diverges, div_after_lhs, demands, builtin_evals,
                   is_builtin>>

\* lines 202-504: the match on the lookup's result
OB_Result ==
    /\ pc = "ob_result"
    /\ \/ /\ result.kind = "Ok"
          /\ adjustments' = adjustments \o AutorefAdjustments(op, is_assign, result.sig)
          /\ method_calls' = Append(method_calls, result.sig)
          /\ return_ty' = result.sig.out
          /\ UNCHANGED <<diags, trace>>
       \/ /\ result.kind = "Err"
          /\ \E orc \in Oracles(is_assign, lhs_ty, rhs_ty) :
                /\ diags' = diags \o FailureDiags(op, is_assign, lhs_ty, rhs_ty, orc)
                /\ trace' = trace \o FailureEvents(op, is_assign, lhs_ty, rhs_ty, orc)
          /\ return_ty' = err_ty
          /\ UNCHANGED <<adjustments, method_calls>>
    /\ pc' = "ob_return"
    /\ UNCHANGED <<fn, op, is_assign, lhs_ty, rhs_ty_var, rhs_ty, result, ret,
                   diverges, lhs_diverges, div_after_lhs, demands, builtin_evals,
                   is_builtin>>

----------------------------------------------------------------------------
(* check_binop and check_binop_assign after check_overloaded_binop returned *)

EvaluatesBuiltin_LhsOnly(l, r) == ~is_ty_var(l)

\* `!lhs_ty.is_ty_var() && !rhs_ty.is_ty_var() &&`: whether the condition
\* goes on to evaluate is_builtin_binop
EvaluatesBuiltin(l, r) == ~is_ty_var(l) /\ ~is_ty_var(r)

\* the condition of lines 88-90 and of line 30
TreatedAsBuiltin(l, r, o) == EvaluatesBuiltin(l, r) /\ is_builtin_binop(l, r, o)

BuiltinEvals(l, r) == IF EvaluatesBuiltin(l, r) THEN <<[lhs |-> l, rhs |-> r]>> ELSE <<>>

CB_Demands_NoReconcile(l, r, o, rt) ==
    IF TreatedAsBuiltin(l, r, o) THEN enforce_builtin_binop_types(l, r, o).demands ELSE <<>>

\* lines 88-100: the demand_suptype calls of check_binop
CB_Demands(l, r, o, rt) ==
    IF TreatedAsBuiltin(l, r, o)
    THEN LET e == enforce_builtin_binop_types(l, r, o)
         IN  e.demands \o <<Demand("expr", e.ty, rt)>>
    ELSE <<>>

CB_Result_Builtin(l, r, o, rt) ==
    IF TreatedAsBuiltin(l, r, o) THEN enforce_builtin_binop_types(l, r, o).ty ELSE rt

\* line 102: what check_binop returns
CB_Result(l, r, o, rt) == rt

\* lines 88-102
CB_Reconcile ==
    /\ pc = "ob_return"
    /\ fn = "check_binop"
    /\ builtin_evals' = builtin_evals \o BuiltinEvals(lhs_ty, rhs_ty)
    /\ is_builtin' = TreatedAsBuiltin(lhs_ty, rhs_ty, op)
    /\ LET ds == CB_Demands(lhs_ty, rhs_ty, op, return_ty)
       IN  /\ demands' = demands \o ds
           /\ diags' = diags \o demand_all(ds)
    /\ ret' = CB_Result(lhs_ty, rhs_ty, op, return_ty)
    /\ pc' = "done"
    /\ UNCHANGED <<fn, op, is_assign, lhs_ty, rhs_ty_var, rhs_ty, result, return_ty,
                   diverges, lhs_diverges, div_after_lhs, trace, adjustments,
                   method_calls>>

\* lines 30-31: the demand_suptype calls of check_binop_assign
CBA_Demands(l, r, o) ==
    IF TreatedAsBuiltin(l, r, o) THEN enforce_builtin_binop_types(l, r, o).demands ELSE <<>>

CBA_Ty_Overload(l, r, o, rt) == rt

\* lines 29-35: the local ty of check_binop_assign
CBA_Ty(l, r, o, rt) == IF TreatedAsBuiltin(l, r, o) THEN unit_ty ELSE rt

\* lines 29-35
CBA_Reconcile ==
    /\ pc = "ob_return"
    /\ fn = "check_binop_assign"
    /\ builtin_evals' = builtin_evals \o BuiltinEvals(lhs_ty, rhs_ty)
    /\ is_builtin' = TreatedAsBuiltin(lhs_ty, rhs_ty, op)
    /\ LET ds == CBA_Demands(lhs_ty, rhs_ty, op)
       IN  /\ demands' = demands \o ds
           /\ diags' = diags \o demand_all(ds)
    /\ ret' = CBA_Ty(lhs_ty, rhs_ty, op, return_ty)
    /\ pc' = "cba_assignable"
    /\ UNCHANGED <<fn, op, is_assign, lhs_ty, rhs_ty_var, rhs_ty, result, return_ty,
                   diverges, lhs_diverges, div_after_lhs, trace, adjustments,
                   method_calls>>

E0067 == [code |-> "E0067", suggs |-> {}, notes |-> {}]

\* check_lhs_assignable: E0067 unless the expression is a place expression
check_lhs_assignable(is_place) == IF is_place THEN <<>> ELSE <<E0067>>

CBA_CheckLhsAssignable_OverloadOnly ==
    /\ pc = "cba_assignable"
    /\ \E is_place \in BOOLEAN :
        IF ret = unit_ty /\ result.kind # "Ok"
        THEN UNCHANGED <<diags, trace>>
        ELSE /\ diags' = diags \o check_lhs_assignable(is_place)
             /\ trace' = Append(trace, Ev("check_lhs_assignable",
                                          Prim(IF is_place THEN "place" ELSE "value"), NoTy))
    /\ pc' = "done"
    /\ UNCHANGED <<fn, op, is_assign, lhs_ty, rhs_ty_var, rhs_ty, result, return_ty,
                   ret, diverges, lhs_diverges, div_after_lhs, demands, adjustments,
                   method_calls, builtin_evals,
                   is_builtin>>

\* lines 37-39: self.check_lhs_assignable(lhs, "E0067", &op.span); ty
CBA_CheckLhsAssignable ==
    /\ pc = "cba_assignable"
    /\ \E is_place \in BOOLEAN :
        /\ diags' = diags \o check_lhs_assignable(is_place)
        /\ trace' = Append(trace, Ev("check_lhs_assignable",
                                     Prim(IF is_place THEN "place" ELSE "value"), NoTy))
    /\ pc' = "done"
    /\ UNCHANGED <<fn, op, is_assign, lhs_ty, rhs_ty_var, rhs_ty, result, return_ty,
                   ret, diverges, lhs_diverges, div_after_lhs, demands, adjustments,
                   method_calls, builtin_evals,
                   is_builtin>>

\* the entry point has returned; the next expression is checked with the
\* divergence state this one left
----------------------------------------------------------------------------
(* check_user_unop *)

UnOps == {"UnDeref", "UnNot", "UnNeg"}

\* UnOp::is_by_value: `!` and `-`
UnOp_is_by_value(o) == o \in {"UnNot", "UnNeg"}

\* the callees lookup_method_in_trait may answer with for a unary operator
UnMethodSigs(l) == {[in0 |-> l, in1 |-> NoTy, out |-> c] : c \in OutTys}

UnLookupAnswers(l) ==
    {[has_trait |-> TRUE, some |-> TRUE, sig |-> m] : m \in UnMethodSigs(l)}
    \cup {[has_trait |-> h, some |-> FALSE, sig |-> NoSig] : h \in BOOLEAN}

\* what resolve_vars_if_possible may make of t: inference variables inside
\* it may have been resolved
ResolveAnswers(t) ==
    IF t.base \in TyVarBases
    THEN {[t EXCEPT !.base = b] : b \in {t.base, "u8", "i32", "S", "err"}}
    ELSE IF t.base = "intvar"
    THEN {[t EXCEPT !.base = b] : b \in {"intvar", "u8", "i32"}}
    ELSE {t}

\* Uint(_)
is_uint(t) == t = Prim("u8")

UnopNotes_AnyIntegral(o, operand_ty, actual, local) ==
    IF is_integral(actual) /\ o = "UnNeg" THEN {"unsigned"}
    ELSE IF actual.refs = <<>> /\ actual.base \in {"str", "never", "char"} THEN {}
    ELSE IF Len(actual.refs) = 1 /\ actual.base = "str" THEN {}
    ELSE suggest_impl_missing(operand_ty, local)

\* lines 692-706: the note of the E0600 diagnostic, chosen by actual.kind
UnopNotes(o, operand_ty, actual, local) ==
    IF is_uint(actual) /\ o = "UnNeg" THEN {"unsigned"}
    ELSE IF actual.refs = <<>> /\ actual.base \in {"str", "never", "char"} THEN {}
    ELSE IF Len(actual.refs) = 1 /\ actual.base = "str" THEN {}
    ELSE suggest_impl_missing(operand_ty, local)

\* lines 676-710: the diagnostic of a failed unary lookup
UnopDiags(o, operand_ty, actual, local) ==
    IF ~references_error(actual)
    THEN <<[code |-> "E0600", suggs |-> {}, notes |-> UnopNotes(o, operand_ty, actual, local)]>>
    ELSE <<>>

\* check_user_unop(ex, operand_ty, op) up to its assert!(op.is_by_value()),
\* which ends the compilation when it fails
Call_check_user_unop ==
    /\ pc = "idle"
    /\ fn' = "check_user_unop"
    /\ \E o \in UnOps :
          /\ op' = o
          /\ pc' = IF UnOp_is_by_value(o) THEN "un_lookup" ELSE "ice"
    /\ \E t \in ExprTys : lhs_ty' = t
    /\ UNCHANGED <<is_assign, rhs_ty_var, rhs_ty, result, return_ty, ret, diverges,
                   lhs_diverges, div_after_lhs, diags, trace, demands, adjustments,
                   method_calls, builtin_evals, is_builtin>>

\* line 671: lookup_op_method(operand_ty, &[], Op::Unary(op, ex.span)); the
\* empty list of argument types is written NoTy
UN_Lookup ==
    /\ pc = "un_lookup"
    /\ \E a \in UnLookupAnswers(lhs_ty) :
        /\ result' = lookup_op_method(op, "Unary", a.has_trait, a)
        /\ trace' = trace \o <<Ev("lookup_op_method", lhs_ty, NoTy)>>
                          \o MethodLookupCalls(op, "Unary", a.has_trait, lhs_ty, NoTy)
    /\ pc' = IF result'.kind = "Bug" THEN "ice" ELSE "un_result"
    /\ UNCHANGED <<fn, op, is_assign, lhs_ty, rhs_ty_var, rhs_ty, return_ty, ret,
                   diverges, lhs_diverges, div_after_lhs, diags, demands, adjustments,
                   method_calls, builtin_evals, is_builtin>>

\* lines 671-713: the match on the lookup's result
UN_Result ==
    /\ pc = "un_result"
    /\ \/ /\ result.kind = "Ok"
          /\ method_calls' = Append(method_calls, result.sig)
          /\ ret' = result.sig.out
          /\ UNCHANGED <<diags, trace>>
       \/ /\ result.kind = "Err"
          /\ \E actual \in ResolveAnswers(lhs_ty), local \in LocalAnswers(lhs_ty) :
                /\ trace' = Append(trace, Ev("resolve_vars_if_possible", lhs_ty, actual))
                /\ diags' = diags \o UnopDiags(op, lhs_ty, actual, local)
          /\ ret' = err_ty
          /\ UNCHANGED method_calls
    /\ pc' = "done"
    /\ UNCHANGED <<fn, op, is_assign, lhs_ty, rhs_ty_var, rhs_ty, result, return_ty,
                   diverges, lhs_diverges, div_after_lhs, demands, adjustments,
                   builtin_evals, is_builtin>>

Return ==
    /\ pc = "done"
    /\ pc' = "idle"
    /\ Cleared
    /\ UNCHANGED diverges

Next ==
    \/ Call_check_binop
    \/ Call_check_binop_assign
    \/ SC_CheckLhs
    \/ SC_SaveDiverges
    \/ SC_CheckRhs
    \/ SC_Restore
    \/ OB_CheckLhs
    \/ OB_Lookup
    \/ Call_check_user_unop
    \/ UN_Lookup
    \/ UN_Result
    \/ OB_CheckRhs
    \/ OB_Result
    \/ CB_Reconcile
    \/ CBA_Reconcile
    \/ CBA_CheckLhsAssignable
    \/ Return

Spec == Init /\ [][Next]_vars

----------------------------------------------------------------------------
(* The builtin rules on their own: is_builtin_binop and                    *)
(* enforce_builtin_binop_types applied to every pair of operand types      *)

RefSeqs(d) == UNION {[1..n -> Mutabilities] : n \in 0..d}

RuleBases == {"i32", "u8", "intvar", "f32", "bool", "char", "S", "err", "?0"}

RuleTys == {Ty(rs, b) : rs \in RefSeqs(MaxRefDepth), b \in RuleBases}

InitRules ==
    /\ pc = "bi_start"
    /\ fn = "none"
    /\ op \in BinOpKinds
    /\ is_assign = "none"
    /\ lhs_ty \in RuleTys
    /\ rhs_ty_var = NoTy
    /\ rhs_ty \in RuleTys
    /\ result = NoResult
    /\ return_ty = NoTy
    /\ ret = NoTy
    /\ diverges = "Maybe"
    /\ lhs_diverges = "none"
    /\ div_after_lhs = "none"
    /\ diags = <<>>
    /\ trace = <<>>
    /\ demands = <<>>
    /\ adjustments = <<>>
    /\ method_calls = <<>>
    /\ builtin_evals = <<>>
    /\ is_builtin = FALSE

\* is_builtin_binop(lhs_ty, rhs_ty, op)
BI_Classify ==
    /\ pc = "bi_start"
    /\ is_builtin' = is_builtin_binop(lhs_ty, rhs_ty, op)
    /\ builtin_evals' = <<[lhs |-> lhs_ty, rhs |-> rhs_ty]>>
    /\ pc' = "bi_classified"
    /\ UNCHANGED <<fn, op, is_assign, lhs_ty, rhs_ty_var, rhs_ty, result, return_ty,
                   ret, diverges, lhs_diverges, div_after_lhs, diags, trace, demands,
                   adjustments, method_calls>>

\* enforce_builtin_binop_types(lhs_ty, rhs_ty, op), whose debug_assert asks
\* for a builtin pair
BI_Enforce ==
    /\ pc = "bi_classified"
    /\ is_builtin
    /\ LET e == enforce_builtin_binop_types(lhs_ty, rhs_ty, op)
       IN  /\ ret' = e.ty
           /\ demands' = e.demands
           /\ diags' = demand_all(e.demands)
    /\ pc' = "bi_done"
    /\ UNCHANGED <<fn, op, is_assign, lhs_ty, rhs_ty_var, rhs_ty, result, return_ty,
                   diverges, lhs_diverges, div_after_lhs, trace, adjustments,
                   method_calls, builtin_evals, is_builtin>>

NextRules == BI_Classify \/ BI_Enforce

SpecRules == InitRules /\ [][NextRules]_vars

----------------------------------------------------------------------------
(* lookup_op_method on its own, called with any operator in either mode    *)

InitLookup ==
    /\ pc = "lk_start"
    /\ fn = "lookup_op_method"
    /\ op \in BinOpKinds
    /\ is_assign \in {"No", "Yes"}
    /\ lhs_ty \in ExprTys
    /\ rhs_ty_var = NoTy
    /\ rhs_ty \in ExprTys \cup {Prim("?rhs")}
    /\ result = NoResult
    /\ return_ty = NoTy
    /\ ret = NoTy
    /\ diverges = "Maybe"
    /\ lhs_diverges = "none"
    /\ div_after_lhs = "none"
    /\ diags = <<>>
    /\ trace = <<>>
    /\ demands = <<>>
    /\ adjustments = <<>>
    /\ method_calls = <<>>
    /\ builtin_evals = <<>>
    /\ is_builtin = FALSE

\* lookup_op_method(lhs_ty, &[rhs_ty], Op::Binary(op, is_assign)); span_bug!
\* ends the compilation
LK_Lookup ==
    /\ pc = "lk_start"
    /\ \E a \in LookupAnswers(lhs_ty, rhs_ty) :
        /\ result' = lookup_op_method(op, is_assign, a.has_trait, a)
        /\ trace' = <<Ev("lookup_op_method", lhs_ty, rhs_ty)>>
                     \o MethodLookupCalls(op, is_assign, a.has_trait, lhs_ty, rhs_ty)
    /\ pc' = IF result'.kind = "Bug" THEN "ice" ELSE "lk_done"
    /\ UNCHANGED <<fn, op, is_assign, lhs_ty, rhs_ty_var, rhs_ty, return_ty, ret,
                   diverges, lhs_diverges, div_after_lhs, diags, demands, adjustments,
                   method_calls, builtin_evals, is_builtin>>

NextLookup == LK_Lookup

SpecLookup == InitLookup /\ [][NextLookup]_vars

----------------------------------------------------------------------------
(* Properties *)

Positions(name) == {i \in DOMAIN trace : trace[i].ev = name}

DiagCount(code) == Cardinality({i \in DOMAIN diags : diags[i].code = code})

InShortcircuit == fn = "check_binop" /\ op \in ShortcircuitOps

InOverloaded == fn \in {"check_binop", "check_binop_assign"} /\ op \notin ShortcircuitOps

\* C1: a check_binop call on `&&` or `||` never invokes lookup_op_method,
\* records no method call and applies no adjustment.
ShortcircuitNeverLooksUp ==
    InShortcircuit =>
        /\ Positions("lookup_op_method") = {}
        /\ method_calls = <<>>
        /\ adjustments = <<>>

ShortcircuitChecked == InShortcircuit /\ pc = "done" /\ ret = bool_ty

\* C2: when check_binop returns from a short-circuit expression, the
\* divergence state is the one the check of the left operand left, whatever
\* the check of the right operand did to it.
DivergenceIsolation ==
    InShortcircuit /\ pc = "done" => diverges = div_after_lhs

RhsDivergenceDiscarded ==
    /\ InShortcircuit
    /\ pc = "done"
    /\ div_after_lhs = "Maybe"
    /\ \E i \in Positions("check_rhs") : trace[i].b = Prim("Always")

\* C3: the left operand is checked before the right one in every run; in a
\* run of check_overloaded_binop the right-hand placeholder is created and
\* lookup_op_method is called on the left type and that placeholder after
\* the left operand's check and before the right operand's check, which is
\* made against the same placeholder.
OperandOrder ==
    /\ \A i \in Positions("check_rhs") : \E j \in Positions("check_lhs") : j < i
    /\ InOverloaded =>
        /\ \A m \in Positions("lookup_op_method") :
              \E j \in Positions("check_lhs") : j < m
        /\ \A i \in Positions("check_rhs") :
              \E j \in Positions("check_lhs"), k \in Positions("next_ty_var") :
                  /\ j < k
                  /\ k + 1 < i
                  /\ trace[k].a = rhs_ty_var
                  /\ trace[k + 1] = Ev("lookup_op_method", lhs_ty, rhs_ty_var)
                  /\ trace[i].a = rhs_ty_var
        /\ pc = "done" =>
              /\ Cardinality(Positions("check_lhs")) = 1
              /\ Cardinality(Positions("check_rhs")) = 1

AssignRunCompleted ==
    /\ pc = "done"
    /\ fn = "check_binop_assign"
    /\ result.kind = "Ok"
    /\ Positions("check_rhs") # {}

\* C4 as stated: is_builtin_binop is never evaluated on an operand type that
\* is a type variable, or is one after one immutable reference layer is
\* stripped.
BuiltinNeverSeesVariableUnderRef ==
    InOverloaded =>
        \A i \in DOMAIN builtin_evals :
            /\ ~is_ty_var(builtin_evals[i].lhs)
            /\ ~is_ty_var(builtin_evals[i].rhs)
            /\ ~is_ty_var(deref_ty_if_possible(builtin_evals[i].lhs))
            /\ ~is_ty_var(deref_ty_if_possible(builtin_evals[i].rhs))

\* C4 amended: is_builtin_binop is evaluated only on the two resolved operand
\* types, only after the right operand has been checked, and never on an
\* operand type that is itself a type variable.
BuiltinNeverSeesTypeVariable ==
    InOverloaded =>
        /\ \A i \in DOMAIN builtin_evals :
              /\ ~is_ty_var(builtin_evals[i].lhs)
              /\ ~is_ty_var(builtin_evals[i].rhs)
              /\ builtin_evals[i] = [lhs |-> lhs_ty, rhs |-> rhs_ty]
        /\ builtin_evals # <<>> => Positions("check_rhs") # {}

BuiltinSeesRefToVariable ==
    /\ InOverloaded
    /\ builtin_evals # <<>>
    /\ lhs_ty = Ty(<<"not">>, "?0")

\* C5 as stated: when the operands are a builtin operation, check_binop
\* returns the type enforce_builtin_binop_types computed and
\* check_binop_assign returns unit.
BuiltinResultReturned ==
    pc = "done" /\ InOverloaded /\ is_builtin =>
        ret = IF fn = "check_binop_assign" THEN unit_ty
              ELSE enforce_builtin_binop_types(lhs_ty, rhs_ty, op).ty

\* C5 amended: when the operands are a builtin operation, check_binop_assign
\* returns unit and check_binop returns the type of the overload path: the
\* callee's output type, or the error type when the lookup failed.
BuiltinCallReturns ==
    pc = "done" /\ InOverloaded /\ is_builtin =>
        ret = IF fn = "check_binop_assign" THEN unit_ty
              ELSE IF result.kind = "Ok" THEN result.sig.out
              ELSE err_ty

BuiltinWithFailedLookup ==
    /\ pc = "done"
    /\ fn = "check_binop"
    /\ is_builtin
    /\ result.kind = "Err"
    /\ lhs_ty = Prim("i32")
    /\ rhs_ty = Prim("u8")

\* C6 as stated: when the operands are a builtin operation, both entry
\* points assert the builtin result type against the overload path's type.
ReconciledInBothModes ==
    pc = "done" /\ InOverloaded /\ is_builtin =>
        /\ demands # <<>>
        /\ demands[Len(demands)] =
              Demand("expr", enforce_builtin_binop_types(lhs_ty, rhs_ty, op).ty, return_ty)

\* C6 amended: when the operands are a builtin operation, check_binop makes
\* the operand assertions of the builtin rule and then asserts the builtin
\* result type against the overload path's type; check_binop_assign makes
\* the operand assertions only.
ReconciledInPlainMode ==
    pc = "done" /\ InOverloaded /\ is_builtin =>
        LET e == enforce_builtin_binop_types(lhs_ty, rhs_ty, op)
        IN  IF fn = "check_binop"
            THEN demands = e.demands \o <<Demand("expr", e.ty, return_ty)>>
            ELSE /\ demands = e.demands
                 /\ \A i \in DOMAIN demands : demands[i].span # "expr"

PlainBuiltinReconciled ==
    /\ pc = "done"
    /\ fn = "check_binop"
    /\ is_builtin
    /\ result.kind = "Ok"
    /\ Len(demands) = 2

\* C7: every check_binop_assign call makes the assignability check of the
\* left operand exactly once, after everything else, and the check reports
\* E0067 exactly when the left operand is not a place.
AssignabilityCheckedOnce ==
    fn = "check_binop_assign" =>
        /\ Cardinality(Positions("check_lhs_assignable")) = IF pc = "done" THEN 1 ELSE 0
        /\ \A i \in Positions("check_lhs_assignable") :
              /\ i = Len(trace)
              /\ DiagCount("E0067") = IF trace[i].a = Prim("value") THEN 1 ELSE 0

NonPlaceBuiltinAssign ==
    /\ pc = "done"
    /\ fn = "check_binop_assign"
    /\ is_builtin
    /\ result.kind = "Err"
    /\ DiagCount("E0067") = 1

ConcreteIntegral(t) == t.refs = <<>> /\ t.base \in {"i32", "u8"}

\* C8: for integral operand types T and U a shift is a builtin operation,
\* its result type is T, and no demand_suptype call is made.
ShiftResultIsLhs ==
    op \in ShiftOps /\ is_integral(lhs_ty) /\ is_integral(rhs_ty) =>
        /\ pc \in {"bi_classified", "bi_done"} => is_builtin
        /\ pc = "bi_done" => ret = lhs_ty /\ demands = <<>>

ShiftOfDifferentIntegrals ==
    /\ pc = "bi_done"
    /\ op = "Shl"
    /\ lhs_ty = Prim("i32")
    /\ rhs_ty = Prim("u8")

\* C9 as stated: for a builtin shift with left operand `&T`, T integral, and
\* an integral right operand, enforce_builtin_binop_types returns `&T`.
ShiftResultKeepsReference ==
    /\ pc = "bi_done"
    /\ op \in ShiftOps
    /\ lhs_ty.refs = <<"not">>
    /\ lhs_ty.base \in IntegralBases
    /\ is_integral(rhs_ty)
    => ret = lhs_ty

\* C9 amended: for a builtin shift with left operand `&T`, T integral, and
\* an integral right operand, enforce_builtin_binop_types returns T, the
\* left operand's type with the reference layer stripped.
ShiftResultIsStrippedLhs ==
    /\ pc = "bi_done"
    /\ op \in ShiftOps
    /\ lhs_ty.refs = <<"not">>
    /\ lhs_ty.base \in IntegralBases
    /\ is_integral(rhs_ty)
    => ret = Prim(lhs_ty.base)

ShiftOfReference ==
    /\ pc = "bi_done"
    /\ op = "Shr"
    /\ lhs_ty = Ty(<<"not">>, "u8")
    /\ rhs_ty = Prim("i32")

\* C10: for a concrete integral type T, T + T is a builtin operation with
\* result type T, and the demand_suptype call on the operands reports
\* nothing.
AddOfEqualIntegrals ==
    op = "Add" /\ ConcreteIntegral(lhs_ty) /\ rhs_ty = lhs_ty =>
        /\ pc \in {"bi_classified", "bi_done"} => is_builtin
        /\ pc = "bi_done" =>
              /\ ret = lhs_ty
              /\ demands = <<Demand("rhs", lhs_ty, lhs_ty)>>
              /\ diags = <<>>

AddOfTwoU8 ==
    /\ pc = "bi_done"
    /\ op = "Add"
    /\ lhs_ty = Prim("u8")
    /\ rhs_ty = Prim("u8")

Classified == pc \in {"bi_classified", "bi_done"}

ConcreteTy(t) == t.base \notin TyVarBases \cup {"intvar", "err"}

\* the pair is both-integral, both-floating or both-boolean (one immutable
\* reference layer aside)
KindMatched(a, b) ==
    LET l == deref_ty_if_possible(a)
        r == deref_ty_if_possible(b)
    IN  \/ is_integral(l) /\ is_integral(r)
        \/ is_floating_point(l) /\ is_floating_point(r)
        \/ is_bool(l) /\ is_bool(r)

Unmatched ==
    /\ Classified
    /\ op \in MathOps \cup BitwiseOps \cup ComparisonOps
    /\ ConcreteTy(lhs_ty)
    /\ ConcreteTy(rhs_ty)
    /\ lhs_ty # rhs_ty
    /\ ~KindMatched(lhs_ty, rhs_ty)

SingleReferenceNormalization ==
    /\ Classified => builtin_evals = <<[lhs |-> lhs_ty, rhs |-> rhs_ty]>>
    /\ Classified /\ op \in MathOps /\ rhs_ty = Prim("f32") =>
        /\ lhs_ty = Ty(<<"not">>, "f32") => is_builtin
        /\ lhs_ty = Ty(<<"not", "not">>, "f32") => ~is_builtin
        /\ lhs_ty = Ty(<<"mut">>, "f32") => ~is_builtin
    /\ Classified /\ op \in MathOps /\ lhs_ty = Prim("f32") =>
        /\ rhs_ty = Ty(<<"not">>, "f32") => is_builtin
        /\ rhs_ty = Ty(<<"not", "not">>, "f32") => ~is_builtin
        /\ rhs_ty = Ty(<<"mut">>, "f32") => ~is_builtin

DoubleReferenceRejected ==
    /\ pc = "bi_classified"
    /\ op = "Mul"
    /\ lhs_ty = Ty(<<"not", "not">>, "f32")
    /\ rhs_ty = Prim("f32")
    /\ ~is_builtin

\* C15: whenever either operand type is or contains the error type, the
\* pair is builtin, for every operator and every other operand type.
ErrorAlwaysBuiltin ==
    Classified /\ (lhs_ty.base = "err" \/ rhs_ty.base = "err") => is_builtin

ErrorUnderMutableReference ==
    /\ pc = "bi_done"
    /\ op = "Lt"
    /\ lhs_ty = Prim("S")
    /\ rhs_ty = Ty(<<"mut">>, "err")

AfterResult == pc \in {"ob_return", "cba_assignable", "done"}

FailureReports == DiagCount("E0368") + DiagCount("E0369")

\* C16: a lookup that finds nothing, also because the operator's trait is
\* no lang item, answers Err and never aborts the check;
\* check_overloaded_binop then returns the error type, reports E0368
\* (compound assignment) or E0369 (plain operator) exactly when neither
\* operand type references an error, and records no method call and no
\* adjustment.
OverloadFailureAbsorbed ==
    InOverloaded =>
        /\ pc # "ice"
        /\ Positions("lookup_op_method") # {} /\ Positions("lookup_method_in_trait") = {}
              => result.kind = "Err"
        /\ result.kind = "Err" /\ AfterResult =>
              /\ return_ty = err_ty
              /\ method_calls = <<>>
              /\ adjustments = <<>>
              /\ FailureReports = IF Reported(lhs_ty, rhs_ty) THEN 1 ELSE 0
              /\ DiagCount(IF is_assign = "Yes" THEN "E0369" ELSE "E0368") = 0

MissingLangItemReported ==
    /\ pc = "done"
    /\ fn = "check_binop"
    /\ result.kind = "Err"
    /\ Positions("lookup_method_in_trait") = {}
    /\ lhs_ty = Prim("S")
    /\ DiagCount("E0369") = 1
    /\ ret = err_ty

\* C17: lookup_op_method called with `&&` or `||` in either mode, or with a
\* comparison operator in compound-assignment mode, ends in span_bug!: it
\* returns neither Err nor a callee and does not call
\* lookup_method_in_trait.
InternalErrorsAreFatal ==
    /\ fn = "lookup_op_method"
    /\ pc # "lk_start"
    /\ op \in ShortcircuitOps \/ (is_assign = "Yes" /\ op \in ComparisonOps)
    => /\ pc = "ice"
       /\ result = Bug
       /\ Positions("lookup_method_in_trait") = {}

ComparisonAssignAborted ==
    /\ fn = "lookup_op_method"
    /\ pc = "ice"
    /\ op = "Le"
    /\ is_assign = "Yes"
    /\ trace = <<Ev("lookup_op_method", lhs_ty, rhs_ty)>>

InCheck == fn \in {"check_binop", "check_binop_assign"}

\* C18 as stated: a call of check_binop or check_binop_assign emits at most
\* one diagnostic in total.
OneDiagnosticPerCall == InCheck => Len(diags) <= 1

\* C18: a call of check_binop or check_binop_assign emits at most one
\* overload-not-found report, at most one mismatch for each subtype
\* assertion it makes and at most one invalid-place report, each
\* independently of the others: at most two diagnostics in check_binop and
\* at most three in check_binop_assign.
DiagnosticsPerCall ==
    InCheck =>
        /\ FailureReports <= 1
        /\ DiagCount("E0067") <= 1
        /\ DiagCount("E0308") <= Len(demands)
        /\ Len(diags) = FailureReports + DiagCount("E0308") + DiagCount("E0067")
        /\ Len(diags) <= IF fn = "check_binop" THEN 2 ELSE 3

ThreeDiagnostics ==
    /\ pc = "done"
    /\ fn = "check_binop_assign"
    /\ DiagCount("E0368") = 1
    /\ DiagCount("E0308") = 1
    /\ DiagCount("E0067") = 1

\* C19: the diagnostic of a failed lookup carries at most one of the
\* dereference suggestion, the call-the-function suggestion and the string
\* concatenation rewrite.
AtMostOneSuggestion ==
    \A i \in DOMAIN diags : Cardinality(diags[i].suggs) <= 1

CallAndDerefSuggested ==
    /\ pc = "done"
    /\ fn = "check_binop"
    /\ lhs_ty = Ty(<<"not">>, "S")
    /\ rhs_ty = Prim("fndef")
    /\ diags = <<[code |-> "E0369", suggs |-> {"call", "deref"}, notes |-> {}]>>

DerefSuggested ==
    \E i \in DOMAIN diags :
        diags[i].code \in {"E0368", "E0369"} /\ "deref" \in diags[i].suggs

ReferentCopyable ==
    \E i \in DOMAIN trace : trace[i] = Ev("type_is_copy", referent(lhs_ty), Prim("yes"))

DerefProbeSucceeded ==
    \E i \in DOMAIN trace :
        /\ trace[i] = Ev("lookup_op_method", referent(lhs_ty), rhs_ty)
        /\ i + 1 \in DOMAIN trace
        /\ trace[i + 1] = Ev("lookup_result", Prim("Ok"), Prim("deref"))

LhsSnippetKnown == \E i \in DOMAIN trace : trace[i] = SnippetEvent("lhs", TRUE)

FailedOnReference ==
    /\ InOverloaded
    /\ AfterResult
    /\ result.kind = "Err"
    /\ is_ref(lhs_ty)
    /\ ~references_error(lhs_ty)

\* C20 as stated: after a failed lookup on a left operand `&X` that is no
\* error, the dereference suggestion is made iff X is Copy and
\* lookup_op_method on X and the right operand's type succeeds.
DerefIffCopyAndProbe ==
    FailedOnReference => (DerefSuggested <=> ReferentCopyable /\ DerefProbeSucceeded)

\* C20: after a failed lookup on a left operand `&X` that is no error, the
\* dereference suggestion is made iff X is Copy, lookup_op_method on X and
\* the right operand's type succeeds and the source text of the left
\* operand is available; lookup_op_method is asked about X only when X is
\* Copy, and in every other run no dereference suggestion is made.
DerefIffCopyProbeAndSnippet ==
    /\ FailedOnReference =>
          /\ DerefSuggested <=>
                ReferentCopyable /\ DerefProbeSucceeded /\ LhsSnippetKnown
          /\ DerefProbeSucceeded => ReferentCopyable
    /\ ~FailedOnReference => ~DerefSuggested

DerefSuggestedOnAssign ==
    /\ pc = "done"
    /\ fn = "check_binop_assign"
    /\ lhs_ty = Ty(<<"not">>, "i32")
    /\ rhs_ty = Prim("i32")
    /\ DerefSuggested

UnaryDiagnostic(actual) ==
    IF references_error(actual)
    THEN diags = <<>>
    ELSE /\ Len(diags) = 1
         /\ diags[1].code = "E0600"
         /\ "unsigned" \in diags[1].notes <=> is_uint(actual) /\ op = "UnNeg"

\* C21: check_user_unop, called with `!` or `-`, calls lookup_op_method
\* exactly once, on the operand type and no argument types; when the lookup
\* succeeds it records the callee and returns its output type; when it
\* fails it returns the error type and emits nothing if the resolved operand
\* type references an error and otherwise exactly one E0600, which carries
\* the unsigned-negation note iff that type is an unsigned integer and the
\* operator is `-`. It applies no adjustment.
UnaryCheck ==
    fn = "check_user_unop" =>
        /\ pc = "ice" <=> ~UnOp_is_by_value(op)
        /\ Cardinality(Positions("lookup_op_method")) =
              IF pc \in {"un_result", "done"} THEN 1 ELSE 0
        /\ \A i \in Positions("lookup_op_method") :
              trace[i] = Ev("lookup_op_method", lhs_ty, NoTy)
        /\ adjustments = <<>>
        /\ pc # "done" => method_calls = <<>> /\ diags = <<>>
        /\ pc = "done" /\ result.kind = "Ok" =>
              /\ method_calls = <<result.sig>>
              /\ ret = result.sig.out
              /\ diags = <<>>
        /\ pc = "done" /\ result.kind # "Ok" =>
              /\ result.kind = "Err"
              /\ method_calls = <<>>
              /\ ret = err_ty
              /\ \E actual \in ResolveAnswers(lhs_ty) :
                    /\ trace[Len(trace)] = Ev("resolve_vars_if_possible", lhs_ty, actual)
                    /\ UnaryDiagnostic(actual)

UnsignedNegationReported ==
    /\ pc = "done"
    /\ fn = "check_user_unop"
    /\ op = "UnNeg"
    /\ lhs_ty = Prim("?0")
    /\ ret = err_ty
    /\ diags = <<[code |-> "E0600", suggs |-> {}, notes |-> {"unsigned"}]>>

AdjustedAt(pos) == {i \in DOMAIN adjustments : adjustments[i].pos = pos}

ByReference == op \in ComparisonOps

\* C22: when the lookup succeeded, the left operand gets an auto-reference
\* iff the operator is a compound assignment or takes its operands by
\* reference and the callee's first input is a reference, the right operand
\* iff the operator takes its operands by reference and the callee's second
\* input is a reference; an adjustment targets the declared input with its
\* mutability, a mutable one allows two-phase borrows, and a plain by-value
\* operator gets no adjustment.
AdjustmentPolicy ==
    InOverloaded /\ AfterResult /\ result.kind = "Ok" =>
        /\ AdjustedAt("lhs") # {} <=>
              (is_assign = "Yes" \/ ByReference) /\ is_ref(result.sig.in0)
        /\ AdjustedAt("rhs") # {} <=> ByReference /\ is_ref(result.sig.in1)
        /\ Cardinality(AdjustedAt("lhs")) <= 1
        /\ Cardinality(AdjustedAt("rhs")) <= 1
        /\ \A i \in DOMAIN adjustments :
              LET a == adjustments[i]
                  input == IF a.pos = "lhs" THEN result.sig.in0 ELSE result.sig.in1
              IN  /\ a.pos \in {"lhs", "rhs"}
                  /\ a.target = input
                  /\ a.mutbl = Head(input.refs)
                  /\ a.mutbl = "mut" => a.allow_two_phase_borrow
        /\ is_assign = "No" /\ ~ByReference => adjustments = <<>>

MutableAutorefOnAssign ==
    /\ pc = "done"
    /\ fn = "check_binop_assign"
    /\ op = "Add"
    /\ result.kind = "Ok"
    /\ result.sig.in1 = Ty(<<"not">>, "?rhs")
    /\ adjustments = <<[pos |-> "lhs", mutbl |-> "mut", allow_two_phase_borrow |-> TRUE,
                        target |-> Ty(<<"mut">>, "S")]>>

LhsChecked == InOverloaded /\ pc # "ob_lhs"

CreatesLhsPlaceholder ==
    \E i \in DOMAIN trace : trace[i] = Ev("next_ty_var", Prim("?lhs"), NoTy)

\* the receiver of the operator's own lookup, the first one of the run
FirstLookupReceiver(t) ==
    \A i \in Positions("lookup_op_method") :
        (\A j \in Positions("lookup_op_method") : i <= j) => trace[i].a = t

\* C23: in a compound assignment the left operand is checked with
\* Needs::MutPlace, no placeholder is created for it, nothing is coerced,
\* and the checked type itself is resolved and passed to lookup_op_method;
\* for a plain operator it is checked with Needs::None and coerced to a
\* fresh placeholder, whose resolution is the receiver passed to
\* lookup_op_method.
LhsPlacementByMode ==
    LhsChecked =>
        /\ FirstLookupReceiver(lhs_ty)
        /\ Cardinality(Positions("check_lhs")) = 1
        /\ is_assign = "Yes" =>
              /\ trace[1] = Ev("check_lhs", Prim("Needs::MutPlace"), NoTy)
              /\ trace[2] = Ev("resolve_vars_with_obligations", lhs_ty, lhs_ty)
              /\ ~CreatesLhsPlaceholder
              /\ Positions("demand_coerce_lhs") = {}
        /\ is_assign = "No" =>
              /\ trace[1] = Ev("check_lhs", Prim("Needs::None"), NoTy)
              /\ trace[2] = Ev("next_ty_var", Prim("?lhs"), NoTy)
              /\ trace[3] = Ev("demand_coerce_lhs", Prim("?lhs"), NoTy)
              /\ trace[4] = Ev("resolve_vars_with_obligations", Prim("?lhs"), lhs_ty)
              /\ Cardinality(Positions("demand_coerce_lhs")) = 1

MutPlaceChecked ==
    /\ pc = "done"
    /\ fn = "check_binop_assign"
    /\ lhs_ty = Ty(<<"mut">>, "i32")
    /\ result.kind = "Ok"
    /\ ~CreatesLhsPlaceholder
    /\ Positions("lookup_op_method") # {}

ProbeSucceeded ==
    \E i \in DOMAIN trace :
        trace[i].ev = "lookup_result" /\ trace[i].a = Prim("Ok")

\* C24: in a run of check_binop or check_binop_assign on an operator other
\* than `&&` and `||`, write_method_call is made once, with the callee of
\* the operator's own lookup, iff that lookup succeeded, whether or not the
\* operands are builtin; the lookups made to find a suggestion record no
\* method call and apply no adjustment, also when they succeed.
MethodCallRecording ==
    InOverloaded =>
        /\ ~AfterResult => method_calls = <<>> /\ adjustments = <<>>
        /\ AfterResult /\ result.kind = "Ok" =>
              /\ method_calls = <<result.sig>>
              /\ ~ProbeSucceeded
        /\ AfterResult /\ result.kind # "Ok" =>
              /\ method_calls = <<>>
              /\ adjustments = <<>>

ProbeSucceededUnrecorded ==
    /\ pc = "done"
    /\ fn = "check_binop"
    /\ result.kind = "Err"
    /\ ProbeSucceeded
    /\ DerefSuggested
    /\ is_builtin
    /\ method_calls = <<>>

====
